---- MODULE Spec2Model ----
(***************************************************************************)
(* FastBERTClassifier early-exit scheduling                                *)
(* (src/uf/apps/fastbert/fastbert_classifier.py, _get_predict_outputs).    *)
(*                                                                         *)
(* One behaviour is one call of _permutate(batch_probs): Init is the state *)
(* at line 227 (outputs allocated, i = 0) for one choice of the            *)
(* classifier's fields and of the rows handed in; the actions are the      *)
(* steps of the three nested loops and of the closing assertion.           *)
(*                                                                         *)
(* Numbers.  Probabilities are percentages (99 is 0.99).  Logarithms,      *)
(* uncertainty scores and speed are in units of 1e-4 (10000 is 1.0).       *)
(* Python lists and arrays are 0-based: a list is a sequence read with     *)
(* At, an array is a function on 0 .. n-1.                                 *)
(***************************************************************************)
EXTENDS Integers, Sequences, FiniteSets, TLC

\* ---------------------------------------------------------------- bounds
MaxBatch == 3
MaxDevice == 2
MaxLayers == 3
MaxIgnore == 2
MaxLabelSize == 2
MaxRows == 5

\* ------------------------------------------------------------- utilities
At(s, j) == s[j + 1]

Range(n) == [j \in 1..n |-> j - 1]

Max(a, b) == IF a >= b THEN a ELSE b

SeqsUpTo(S, n) == UNION {[1..m -> S] : m \in 0..n}

NonDecreasing(s) == \A a, b \in 1..Len(s) : a <= b => s[a] <= s[b]

Members(s) == {s[j] : j \in 1..Len(s)}

\* ------------------------------------------------------- uncertainty score
\* -inf: numpy's float division of a negative number by zero, and np.log(0).
NegInf == -1000000000

\* np.log on the grid of the model, in units of 1e-4, rounded to nearest.
\* The argument is a percentage; np.log(1.0) is exactly 0.
LogPct(pct) ==
    CASE pct = 100 -> 0
      [] pct = 0 -> NegInf
      [] pct = 99 -> -101
      [] pct = 60 -> -5108
      [] pct = 50 -> -6931
      [] pct = 40 -> -9163
      [] pct = 1 -> -46052

\* np.log(1 / label_size), in units of 1e-4.
LogInvLabelSize(ls) ==
    CASE ls = 1 -> 0
      [] ls = 2 -> -6931
      [] ls = 3 -> -10986
      [] ls = 4 -> -13863

\* the value 1e-20 of line 214, which is no percentage of the grid
Eps == -20

\* if prob < 1e-20 or 1 - prob < 1e-20: prob = 1e-20 (lines 213-214)
ClampNever(pct) == pct

Clamp(pct) == IF pct < 1 \/ 100 - pct < 1 THEN Eps ELSE pct

\* the arguments np.log is applied to at line 215; 1 - 1e-20 is 1.0 in floating
\* point
LogArgs(prob) == IF prob = Eps THEN {Eps, 100} ELSE {prob, 100 - prob}

\* prob * np.log(prob) + (1 - prob) * np.log(1 - prob), in units of 1e-6.
\* For the clamped prob 1e-20, 1 - prob rounds to 1.0, whose log is 0, and
\* 1e-20 * log(1e-20) = -4.6e-19 is negative but below the resolution of the
\* model: it is kept as the least negative unit so that its sign survives.
Numerator(prob) ==
    IF prob = Eps
    THEN -1
    ELSE prob * LogPct(prob) + (100 - prob) * LogPct(100 - prob)

\* _uncertainty(prob) (lines 212-215), in units of 1e-4, rounded down.
Uncertainty(pct, ls) ==
    LET num == Numerator(Clamp(pct))
        den == LogInvLabelSize(ls)
    IN  IF den = 0 THEN NegInf ELSE ((-num) * 100) \div (-den)

\* ------------------------------------------------------------------ inputs
\* First-class probabilities a row can carry.  A one-label softmax is 1.0.
Probs(ls) == IF ls = 1 THEN {100} ELSE {60, 99}

\* A row of batch_probs: label_size percentages, the first being row[0].
RowOf(pct, ls) == [j \in 1..ls |-> IF j = 1 THEN pct ELSE IF j = 2 THEN 100 - pct ELSE 0]

Rows(ls) == {RowOf(p, ls) : p \in Probs(ls)}

ZeroRow(ls) == [j \in 1..ls |-> 0]

Speeds == {0, 1000, 10000}

\* Lists self._ignore_cls can hold: the first and the final stage, repeated or
\* not, one index past the final stage, and a list with more entries than the
\* model has stages.
IgnoreLists(L) ==
    {s \in SeqsUpTo({0, L}, MaxIgnore) : NonDecreasing(s)}
        \cup {<<L + 1>>} \cup {[j \in 1..L + 2 |-> 0]}

VARIABLES
    batch_size,         \* self.batch_size
    n_gpus,             \* len(self._gpu_ids)
    num_hidden_layers,  \* self.bert_config.num_hidden_layers
    ignore_cls,         \* self._ignore_cls
    speed,              \* self._speed
    label_size,         \* self.label_size
    batch_probs,        \* the argument of _permutate
    probs, sources,     \* the output arrays
    i,                  \* the row counter
    d, loop, k,         \* the three loop variables
    unfinished, next_unfinished,
    pc,                 \* position in _permutate
    exc,                \* the exception that ended the call, "" if none
    trace,              \* history: one record per executed loop body
    entered,            \* history: the unfinished list at each loop start
    session_mode,       \* self._session_mode
    call,               \* history: the call of predict, score or export in progress
    calls,              \* history: the number of calls made so far
    scores,             \* the values of _uncertainty(row[0]), one per row scored
    probs_arrays, sources_arrays,   \* what _permutate returned, batch by batch
    n_inputs,           \* the number of examples of the data set
    id_to_label,        \* self._id_to_label
    outputs,            \* the dict _get_predict_outputs returns
    wide_features,      \* self.wide_features of a Wide & Deep module
    wide_batch,         \* the "Wide" lists of the batch the last _convert_X was given
    wide_rows,          \* the wide_features rows the last _convert_X returned
    wide_counts,        \* the n_wide_features the last _convert_X returned
    warnings,           \* the "Unregistered wide feature" warnings it logged
    wide_history,       \* history: self.wide_features at construction and after each call
    max_predictions_per_seq,    \* self._max_predictions_per_seq of an ELECTRALM
    is_training,        \* the is_training argument of its last _convert_X
    input_tokens,       \* _input_tokens of each example, as assembled at line 377
    masked_lm_positions, masked_lm_ids, masked_lm_weights,  \* what the call returned
    max_seq_length, spad_id,    \* arguments of DLM.__init__
    dlm_loop,           \* its loop argument
    iteration,          \* the number of _forward calls made so far
    dilated_ids, dilated_mask,  \* the two tensors the loop rewrites
    paded               \* the tensor `paded` of the last _forward

config == <<batch_size, n_gpus, num_hidden_layers, ignore_cls, speed, label_size, batch_probs>>

\* what a call of _permutate works on, and what belongs to the calls around it
locals == <<probs, sources, i, d, loop, k, unfinished, next_unfinished, trace, entered>>

api == <<session_mode, call, calls>>

scoring == <<scores>>

assembly == <<probs_arrays, sources_arrays, n_inputs, id_to_label, outputs>>

wide == <<wide_features, wide_batch, wide_rows, wide_counts, warnings, wide_history>>

electra == <<max_predictions_per_seq, is_training, input_tokens,
             masked_lm_positions, masked_lm_ids, masked_lm_weights>>

dlm == <<max_seq_length, spad_id, dlm_loop, iteration, dilated_ids, dilated_mask, paded>>

\* the state of the data conversions of the other modules
conversions == <<wide, electra, dlm>>

vars == <<batch_size, n_gpus, num_hidden_layers, ignore_cls, speed, label_size,
          batch_probs, probs, sources, i, d, loop, k, unfinished,
          next_unfinished, pc, exc, trace, entered, session_mode, call, calls,
          scores, probs_arrays, sources_arrays, n_inputs, id_to_label, outputs,
          wide_features, wide_batch, wide_rows, wide_counts, warnings, wide_history,
          max_predictions_per_seq, is_training, input_tokens,
          masked_lm_positions, masked_lm_ids, masked_lm_weights,
          max_seq_length, spad_id, dlm_loop, iteration, dilated_ids, dilated_mask, paded>>

\* no call of predict, score or export is recorded
NoCall == [kind |-> "none", speed_given |-> FALSE, ignore_given |-> FALSE,
           speed |-> 0, ignore_cls |-> <<>>, old_speed |-> 0, old_ignore_cls |-> <<>>,
           old_mode |-> "None"]

ApiIdle == session_mode = "None" /\ call = NoCall /\ calls = 0

NoOutputs == [preds |-> <<>>, probs |-> <<>>, sources |-> <<>>]

\* no call of _get_predict_outputs is recorded
NoAssembly ==
    /\ probs_arrays = <<>>
    /\ sources_arrays = <<>>
    /\ n_inputs = 0
    /\ id_to_label = <<>>
    /\ outputs = NoOutputs

\* self.wide_features as the constructor leaves it by default (None)
NoVocabulary == [kind |-> "None", items |-> <<>>]

\* no call of a Wide & Deep _convert_X is recorded
NoWide ==
    /\ wide_features = NoVocabulary
    /\ wide_batch = <<>>
    /\ wide_rows = <<>>
    /\ wide_counts = <<>>
    /\ warnings = 0
    /\ wide_history = <<>>

\* no call of ELECTRALM._convert_X is recorded
NoMasks ==
    /\ is_training = FALSE
    /\ input_tokens = <<>>
    /\ masked_lm_positions = <<>>
    /\ masked_lm_ids = <<>>
    /\ masked_lm_weights = <<>>

NoElectra == max_predictions_per_seq = 0 /\ NoMasks

\* no DLM graph is being built
NoDLM ==
    /\ max_seq_length = 0
    /\ spad_id = 0
    /\ dlm_loop = 0
    /\ iteration = 0
    /\ dilated_ids = <<>>
    /\ dilated_mask = <<>>
    /\ paded = <<>>

NoConversions == NoWide /\ NoElectra /\ NoDLM

\* ------------------------------------------------- lines 218-226: set-up
n_device == Max(n_gpus, 1)

d_batch_size == batch_size \div n_device

max_loop_all_stages == num_hidden_layers + 1

max_loop == num_hidden_layers + 1 - Len(ignore_cls)

keep_cls == SelectSeq(Range(num_hidden_layers + 1), LAMBDA c : c \notin Members(ignore_cls))

\* convert (lines 159-160): a data set smaller than the batch shrinks the batch,
\* if n_inputs < self.batch_size: self.batch_size = max(n_inputs, len(self._gpu_ids))
ConvertBatchSize(arg, n, gpus) ==
    IF n < arg THEN Max(n, gpus) ELSE arg

\* The batch sizes a call can schedule with: the caller's batch_size, taken to
\* be a multiple of the device count, after convert has seen n_inputs examples.
BatchSizes(gpus) ==
    {ConvertBatchSize(arg, n, gpus) :
        arg \in {a \in 1..MaxBatch + MaxDevice : a % gpus = 0}, n \in 1..MaxBatch}
    \cap 1..MaxBatch

Init ==
    /\ NoConversions
    /\ n_gpus \in 1..MaxDevice
    /\ batch_size \in BatchSizes(n_gpus)
    /\ num_hidden_layers \in 1..MaxLayers
    /\ ignore_cls \in IgnoreLists(num_hidden_layers)
    /\ speed \in Speeds
    /\ label_size \in {1, MaxLabelSize}    \* a one-label softmax, and the widest rows
    /\ batch_probs \in SeqsUpTo(Rows(label_size), MaxRows)
    /\ probs = [j \in 0..batch_size - 1 |-> ZeroRow(label_size)]
    /\ sources = [j \in 0..batch_size - 1 |-> 0]
    /\ i = 0
    /\ d = 0
    /\ loop = 0
    /\ k = 0
    /\ unfinished = <<>>
    /\ next_unfinished = <<>>
    /\ pc = "for_d"
    /\ exc = ""
    /\ trace = <<>>
    /\ entered = <<>>
    /\ ApiIdle
    /\ scores = <<>>
    /\ NoAssembly

\* --------------------------------------------------- lines 229-230, 244
ChunkStartAligned(dd, ii) == [j \in 1..d_batch_size |-> (j - 1) + dd * d_batch_size]

ChunkStart(dd, ii) == [j \in 1..d_batch_size |-> (j - 1) + ii]

\* for d in range(n_device): unfinished = [k + i for k in range(d_batch_size)]
ForDevice ==
    /\ pc = "for_d"
    /\ d < n_device
    /\ unfinished' = ChunkStart(d, i)
    /\ loop' = 0
    /\ pc' = "for_loop"
    /\ UNCHANGED <<config, api, scoring, assembly, conversions, probs, sources, i, d, k, next_unfinished, exc, trace, entered>>

\* the device loop is exhausted: assert i == len(batch_probs); return
AssertSkipped(ii, n) == TRUE

AssertHolds(ii, n) == ii = n

AssertAndReturn ==
    /\ pc = "for_d"
    /\ d >= n_device
    /\ IF AssertHolds(i, Len(batch_probs))
       THEN pc' = "returned" /\ exc' = exc
       ELSE pc' = "raised" /\ exc' = "AssertionError@244"
    /\ UNCHANGED <<config, api, scoring, assembly, conversions, probs, sources, i, d, loop, k, unfinished,
                   next_unfinished, trace, entered>>

\* --------------------------------------------------------- lines 232-235
\* for loop in range(max_loop): source = keep_cls[loop]; next_unfinished = []
ForLoop ==
    /\ pc = "for_loop"
    /\ loop < max_loop
    /\ next_unfinished' = <<>>
    /\ k' = 0
    /\ pc' = "for_k"
    /\ entered' = Append(entered, [d |-> d, loop |-> loop, unfinished |-> unfinished])
    /\ UNCHANGED <<config, api, scoring, assembly, conversions, probs, sources, i, d, loop, unfinished, exc, trace>>

\* the stage loop is exhausted: next d
EndDevice ==
    /\ pc = "for_loop"
    /\ loop >= max_loop
    /\ d' = d + 1
    /\ pc' = "for_d"
    /\ UNCHANGED <<config, api, scoring, assembly, conversions, probs, sources, i, loop, k, unfinished,
                   next_unfinished, exc, trace, entered>>

\* --------------------------------------------------------- lines 236-243
IsLastLoop(lp) == lp = max_loop - 1

\* the condition of line 237
ExitsOnLastClass(row, lp) == Uncertainty(row[Len(row)], label_size) < speed \/ IsLastLoop(lp)

ExitsUnforced(row, lp) == Uncertainty(At(row, 0), label_size) < speed

Exits(row, lp) == Uncertainty(At(row, 0), label_size) < speed \/ IsLastLoop(lp)

\* the row counter after one loop body (line 242)
NextRowStuck(ii) == ii

NextRow(ii) == ii + 1

\* the stage recorded for a loop (lines 233, 239)
SourceOf(lp) == At(keep_cls, lp)

\* batch_probs[i] raises IndexError when the rows have run out
ReadFails ==
    /\ pc = "for_k"
    /\ k < Len(unfinished)
    /\ i >= Len(batch_probs)
    /\ pc' = "raised"
    /\ exc' = "IndexError@237"
    /\ UNCHANGED <<config, api, scoring, assembly, conversions, probs, sources, i, d, loop, k, unfinished,
                   next_unfinished, trace, entered>>

\* probs[unfinished[k]] = ... raises IndexError when the index is outside the array
WriteFails ==
    /\ pc = "for_k"
    /\ k < Len(unfinished)
    /\ i < Len(batch_probs)
    /\ Exits(At(batch_probs, i), loop)
    /\ At(unfinished, k) >= batch_size
    /\ pc' = "raised"
    /\ exc' = "IndexError@238"
    /\ UNCHANGED <<config, api, scoring, assembly, conversions, probs, sources, i, d, loop, k, unfinished,
                   next_unfinished, trace, entered>>

\* arr[idx] = val: one entry of a freshly allocated output array is assigned
\* (lines 238, 239); numpy copies the values of the row.
WriteAll(arr, idx, val) == [j \in DOMAIN arr |-> val]

Write(arr, idx, val) == [arr EXCEPT ![idx] = val]

\* the example leaves: its row and its stage are written (lines 238-239, 242)
Finalize ==
    /\ pc = "for_k"
    /\ k < Len(unfinished)
    /\ i < Len(batch_probs)
    /\ Exits(At(batch_probs, i), loop)
    /\ At(unfinished, k) < batch_size
    /\ probs' = Write(probs, At(unfinished, k), At(batch_probs, i))
    /\ sources' = Write(sources, At(unfinished, k), SourceOf(loop))
    /\ trace' = Append(trace, [d |-> d, loop |-> loop, k |-> k, idx |-> At(unfinished, k),
                               row |-> i, exit |-> TRUE])
    /\ i' = NextRow(i)
    /\ k' = k + 1
    /\ UNCHANGED <<config, api, scoring, assembly, conversions, d, loop, unfinished, next_unfinished, pc, exc, entered>>

\* next_unfinished.append(unfinished[k]) (line 241)
KeepInFront(nu, idx) == <<idx>> \o nu

Keep(nu, idx) == Append(nu, idx)

\* the example stays for the next loop (lines 241-242)
Defer ==
    /\ pc = "for_k"
    /\ k < Len(unfinished)
    /\ i < Len(batch_probs)
    /\ ~Exits(At(batch_probs, i), loop)
    /\ next_unfinished' = Keep(next_unfinished, At(unfinished, k))
    /\ trace' = Append(trace, [d |-> d, loop |-> loop, k |-> k, idx |-> At(unfinished, k),
                               row |-> i, exit |-> FALSE])
    /\ i' = NextRow(i)
    /\ k' = k + 1
    /\ UNCHANGED <<config, api, scoring, assembly, conversions, probs, sources, d, loop, unfinished, pc, exc, entered>>

\* the k loop is exhausted: unfinished = next_unfinished; next loop (line 243)
EndLoop ==
    /\ pc = "for_k"
    /\ k >= Len(unfinished)
    /\ unfinished' = next_unfinished
    /\ loop' = loop + 1
    /\ pc' = "for_loop"
    /\ UNCHANGED <<config, api, scoring, assembly, conversions, probs, sources, i, d, k, next_unfinished, exc, trace, entered>>

Next ==
    \/ ForDevice
    \/ AssertAndReturn
    \/ ForLoop
    \/ EndDevice
    \/ ReadFails
    \/ WriteFails
    \/ Finalize
    \/ Defer
    \/ EndLoop

Spec == Init /\ [][Next]_vars

\* ------------------------- _get_score_outputs._permutate (lines 279-307)
\* The copy of _permutate that score uses, as a function of the fields and of
\* batch_probs: st carries probs, the row counter i, next_unfinished and
\* whether an exception has ended the call.
RECURSIVE ScoreForK(_, _, _, _)
\* for k in range(len(unfinished)) (lines 298-304), from k = kk on
ScoreForK(st, unf, kk, lp) ==
    IF st.err \/ kk >= Len(unf) THEN st
    ELSE IF st.i >= Len(batch_probs) THEN [st EXCEPT !.err = TRUE]
    ELSE LET row == At(batch_probs, st.i)
         IN  IF Uncertainty(At(row, 0), label_size) < speed \/ lp = max_loop - 1
             THEN IF At(unf, kk) >= batch_size
                  THEN [st EXCEPT !.err = TRUE]
                  ELSE ScoreForK([st EXCEPT !.probs = [@ EXCEPT ![At(unf, kk)] = row],
                                            !.i = @ + 1], unf, kk + 1, lp)
             ELSE ScoreForK([st EXCEPT !.next = Append(@, At(unf, kk)), !.i = @ + 1],
                            unf, kk + 1, lp)

RECURSIVE ScoreForLoop(_, _, _)
\* for loop in range(max_loop) (lines 294-305), from loop = lp on
ScoreForLoop(st, unf, lp) ==
    IF st.err \/ lp >= max_loop THEN st
    ELSE LET after == ScoreForK([st EXCEPT !.next = <<>>], unf, 0, lp)
         IN  ScoreForLoop(after, after.next, lp + 1)

RECURSIVE ScoreForDevice(_, _)
\* for d in range(n_device) (lines 291-305), from d = dd on
ScoreForDevice(st, dd) ==
    IF st.err \/ dd >= n_device THEN st
    ELSE ScoreForDevice(
             ScoreForLoop(st, [j \in 1..d_batch_size |-> (j - 1) + st.i], 0), dd + 1)

\* _permutate(batch_probs) of _get_score_outputs: the probs array, or err when
\* the call raises (an index out of range, or the assertion of line 306)
ScorePermutate ==
    LET st == ScoreForDevice([probs |-> [j \in 0..batch_size - 1 |-> ZeroRow(label_size)],
                              i |-> 0, next |-> <<>>, err |-> FALSE], 0)
    IN  [probs |-> st.probs, err |-> st.err \/ st.i # Len(batch_probs)]

\* ------------------------------------- predict, score, export (lines 54-139)
\* One behaviour of SpecApi is a classifier object and the calls made on it.
\* A call is two steps: the lines of FastBERTClassifier that store the
\* settings, then the call of the base class, which does the work with the
\* settings it finds in self._speed and self._ignore_cls.
MaxCalls == 2

\* speed=0.1 in the three signatures
DefaultSpeed == 1000

\* ignore_cls="0" in the three signatures, as the list convert_ignore_cls
\* makes of it: the list the constructor stores at line 36
DefaultIgnoreCls == <<0>>

SessionModes == {"None", "infer"}

\* no call of _permutate is in progress
NoPermutate ==
    /\ batch_size = 0
    /\ batch_probs = <<>>
    /\ probs = <<>>
    /\ sources = <<>>
    /\ i = 0
    /\ d = 0
    /\ loop = 0
    /\ k = 0
    /\ unfinished = <<>>
    /\ next_unfinished = <<>>
    /\ exc = ""
    /\ trace = <<>>
    /\ entered = <<>>

\* the object after __init__ (lines 29-52)
InitApi ==
    /\ NoConversions
    /\ n_gpus \in 1..MaxDevice
    /\ num_hidden_layers \in 1..MaxLayers
    /\ label_size \in 1..MaxLabelSize
    /\ ignore_cls = <<0>>
    /\ speed = 1000
    /\ ApiIdle
    /\ pc = "idle"
    /\ NoPermutate
    /\ scores = <<>>
    /\ NoAssembly

\* if arg != self._x: self._x = arg (lines 72-73, 76-77)
StoreKept(stored, arg) == stored

Store(stored, arg) == IF arg # stored THEN arg ELSE stored

\* self._session_mode = None when a setting is replaced (lines 74, 78)
ModeAlwaysReset(mode, ig, sp) == "None"

ModeAfter(mode, ig, sp) == IF ig # ignore_cls \/ sp # speed THEN "None" ELSE mode

\* the lines the three methods share: 70-78, 101-109, 129-137.  A setting the
\* caller leaves out takes the default of the signature.
ApiCall(kind) ==
    /\ pc = "idle"
    /\ calls < MaxCalls
    /\ \E speed_given, ignore_given \in BOOLEAN, sp \in Speeds,
          ig \in IgnoreLists(num_hidden_layers) :
          LET speed_arg == IF speed_given THEN sp ELSE DefaultSpeed
              ignore_arg == IF ignore_given THEN ig ELSE DefaultIgnoreCls
          IN  /\ ignore_cls' = Store(ignore_cls, ignore_arg)
              /\ speed' = Store(speed, speed_arg)
              /\ session_mode' = ModeAfter(session_mode, ignore_arg, speed_arg)
              /\ call' = [kind |-> kind, speed_given |-> speed_given,
                          ignore_given |-> ignore_given, speed |-> speed_arg,
                          ignore_cls |-> ignore_arg, old_speed |-> speed,
                          old_ignore_cls |-> ignore_cls, old_mode |-> session_mode]
    /\ calls' = calls + 1
    /\ pc' = "base"
    /\ UNCHANGED <<batch_size, n_gpus, num_hidden_layers, label_size, batch_probs,
                   locals, exc, scoring, assembly, conversions>>

Predict == ApiCall("predict")

Score == ApiCall("score")

Export == ApiCall("export")

\* return super(ClassifierModule, self).predict(...) (lines 80, 110, 139): the
\* base class works with the stored settings and leaves the session in a
\* mode of its choosing.
BaseCall ==
    /\ pc = "base"
    /\ session_mode' \in SessionModes
    /\ call' = NoCall
    /\ pc' = "idle"
    /\ UNCHANGED <<config, locals, exc, calls, scoring, assembly, conversions>>

NextApi == Predict \/ Score \/ Export \/ BaseCall

SpecApi == InitApi /\ [][NextApi]_vars

\* ------------------------------------------- _uncertainty (lines 212-215)
\* One behaviour of SpecScore scores the rows of a batch one after the other,
\* each with _uncertainty(row[0]), as line 237 does.
MaxScored == 2

\* first-class probabilities on the grid of LogPct: 0.0, 0.01, 0.4, 0.5, 0.6,
\* 0.99 and 1.0
GridProbs(ls) == IF ls = 1 THEN {100} ELSE {0, 1, 40, 50, 60, 99, 100}

InitScore ==
    /\ NoConversions
    /\ n_gpus = 1
    /\ num_hidden_layers = 1
    /\ label_size \in 1..MaxLabelSize
    /\ ignore_cls = <<0>>
    /\ speed = 1000
    /\ batch_size = MaxScored
    /\ batch_probs \in SeqsUpTo({RowOf(p, label_size) : p \in GridProbs(label_size)}, MaxScored)
    /\ probs = <<>>
    /\ sources = <<>>
    /\ i = 0
    /\ d = 0
    /\ loop = 0
    /\ k = 0
    /\ unfinished = <<>>
    /\ next_unfinished = <<>>
    /\ exc = ""
    /\ trace = <<>>
    /\ entered = <<>>
    /\ ApiIdle
    /\ pc = "score"
    /\ scores = <<>>
    /\ NoAssembly

\* _uncertainty(batch_probs[i][0])
ScoreRow ==
    /\ pc = "score"
    /\ i < Len(batch_probs)
    /\ scores' = Append(scores, Uncertainty(At(At(batch_probs, i), 0), label_size))
    /\ i' = i + 1
    /\ UNCHANGED <<config, api, assembly, conversions, probs, sources, d, loop, k, unfinished,
                   next_unfinished, pc, exc, trace, entered>>

NextScore == ScoreRow

SpecScore == InitScore /\ [][NextScore]_vars

\* ------------------------------ _get_predict_outputs, lines 247-267
\* One behaviour of SpecAssemble is the assembly of the outputs of predict
\* from the arrays _permutate returned for the batches of a data set.  Here an
\* array is a sequence read with At.
MaxArrays == 2

MaxPerBatch == 2

\* What _permutate leaves at one index: the zero row of an index it never
\* wrote, a row with the first label ahead from stage 0, a row with the second
\* label ahead from stage 1.
Slots(ls) ==
    {[row |-> ZeroRow(ls), source |-> 0],
     [row |-> RowOf(99, ls), source |-> 0],
     [row |-> RowOf(40, ls), source |-> 1]}

LabelNames == <<"negative", "positive", "neutral", "other", "more">>

\* self._id_to_label: None or empty, or the names of the first labels
LabelMaps(ls) == {SubSeq(LabelNames, 1, m) : m \in 0..ls}

InitAssemble ==
    /\ NoConversions
    /\ n_gpus = 1
    /\ num_hidden_layers = 1
    /\ label_size \in 2..MaxLabelSize
    /\ ignore_cls = <<0>>
    /\ speed = 1000
    /\ batch_size \in 1..MaxPerBatch
    /\ batch_probs = <<>>
    /\ probs = <<>>
    /\ sources = <<>>
    /\ i = 0
    /\ d = 0
    /\ loop = 0
    /\ k = 0
    /\ unfinished = <<>>
    /\ next_unfinished = <<>>
    /\ exc = ""
    /\ trace = <<>>
    /\ entered = <<>>
    /\ ApiIdle
    /\ scores = <<>>
    /\ pc = "assemble"
    /\ \E n \in 1..MaxArrays :
          \E slots \in [1..n -> [1..batch_size -> Slots(label_size)]] :
              /\ probs_arrays = [a \in 1..n |-> [b \in 1..batch_size |-> slots[a][b].row]]
              /\ sources_arrays = [a \in 1..n |-> [b \in 1..batch_size |-> slots[a][b].source]]
              /\ n_inputs \in (n - 1) * batch_size + 1 .. n * batch_size
    /\ id_to_label \in LabelMaps(label_size)
    /\ outputs = NoOutputs

RECURSIVE Stack(_)
\* np.vstack / np.hstack of a list of arrays
Stack(arrays) == IF arrays = <<>> THEN <<>> ELSE Head(arrays) \o Stack(Tail(arrays))

\* com.transform(arrays, n_inputs): the arrays of the batches put one after the
\* other and cut to the n_inputs examples of the data set, as _transform of
\* lines 305-308 does
Transform(arrays, n) == SubSeq(Stack(arrays), 1, n)

\* np.argmax(row): the first index of the largest entry
ArgMax(row) ==
    CHOOSE j \in 0..Len(row) - 1 :
        /\ \A m \in 0..Len(row) - 1 : At(row, m) <= At(row, j)
        /\ \A m \in 0..j - 1 : At(row, m) < At(row, j)

\* self._id_to_label[idx] if idx < len(self._id_to_label) else None (line 260)
MapLabelClipped(idx, map) == IF idx < Len(map) THEN At(map, idx) ELSE At(map, Len(map) - 1)

MapLabel(idx, map) == IF idx < Len(map) THEN At(map, idx) ELSE "None"

\* lines 254-265
Assemble ==
    /\ pc = "assemble"
    /\ LET out_probs == Transform(probs_arrays, n_inputs)
           raw == [j \in 1..Len(out_probs) |-> ArgMax(out_probs[j])]
       IN  outputs' = [preds |-> IF id_to_label # <<>>
                                 THEN [j \in 1..Len(raw) |-> MapLabel(raw[j], id_to_label)]
                                 ELSE raw,
                       probs |-> out_probs,
                       sources |-> Transform(sources_arrays, n_inputs)]
    /\ pc' = "assembled"
    /\ UNCHANGED <<config, api, scoring, conversions, locals, exc, probs_arrays, sources_arrays,
                   n_inputs, id_to_label>>

NextAssemble == Assemble

SpecAssemble == InitAssemble /\ [][NextAssemble]_vars

\* ----------------------------- LMModule (src/uf/apps/_base_/_base_lm.py)
\* One behaviour of SpecLM is a language-modelling module and the calls of
\* fit, fit_from_tfrecords and score made on it.  The module's state is what
\* the base class keeps: the batch size and the session mode.
MaxArgs == 2

LMModes == {"None", "train", "infer"}

InitLM ==
    /\ NoConversions
    /\ n_gpus = 1
    /\ num_hidden_layers = 1
    /\ label_size = 1
    /\ ignore_cls = <<>>
    /\ speed = 0
    /\ NoPermutate
    /\ session_mode = "None"
    /\ call = [kind |-> "none", n_args |-> 0, n_kwargs |-> 0,
               old_batch_size |-> 0, old_mode |-> "None"]
    /\ calls = 0
    /\ scores = <<>>
    /\ NoAssembly
    /\ pc = "lm"

\* fit and fit_from_tfrecords hand their arguments to the base class (lines
\* 20-31, 46-56), which trains with the batch size given and leaves the session
\* in a mode of its choosing.
LMFitting(kind) ==
    /\ pc = "lm"
    /\ calls < MaxCalls
    /\ batch_size' \in 1..MaxBatch
    /\ session_mode' \in LMModes
    /\ exc' = ""
    /\ call' = [kind |-> kind, n_args |-> 0, n_kwargs |-> 0,
                old_batch_size |-> batch_size, old_mode |-> session_mode]
    /\ calls' = calls + 1
    /\ UNCHANGED <<n_gpus, num_hidden_layers, ignore_cls, speed, label_size, batch_probs,
                   locals, pc, scoring, assembly, conversions>>

LMFit == LMFitting("fit")

LMFitFromTfrecords == LMFitting("fit_from_tfrecords")

\* what score(*args, **kwargs) ends in (line 60)
LMScoreTakesKwargs(n_args, n_kwargs) == IF n_kwargs > 0 THEN "" ELSE "AttributeError@60"

LMScoreOutcome(n_args, n_kwargs) == "AttributeError@60"

\* score(*args, **kwargs) (lines 59-60)
LMScore ==
    /\ pc = "lm"
    /\ calls < MaxCalls
    /\ \E n_args, n_kwargs \in 0..MaxArgs :
          /\ exc' = LMScoreOutcome(n_args, n_kwargs)
          /\ call' = [kind |-> "score", n_args |-> n_args, n_kwargs |-> n_kwargs,
                      old_batch_size |-> batch_size, old_mode |-> session_mode]
    /\ calls' = calls + 1
    /\ UNCHANGED <<config, session_mode, locals, pc, scoring, assembly, conversions>>

NextLM == LMFit \/ LMFitFromTfrecords \/ LMScore

SpecLM == InitLM /\ [][NextLM]_vars

\* ============================================ Wide & Deep data conversion
\* src/uf/apps/widedeep.py, WideDeepClassifier._convert_X (lines 106-181);
\* src/uf/application/wide_and_deep.py carries the same text for the
\* classifier and the regressor.  One behaviour of SpecWide is the life of one
\* module: Init is the state after the constructor, one action is one whole
\* call of _convert_X on a batch of well-formed examples.  The "Deep" half of
\* an example (tokenising, truncating) does not touch the wide outputs and is
\* left out.
MaxWide == 2
MaxExamples == 2
MaxBatchValues == 2
MaxConverts == 2

\* the values a "Wide" list can carry
Features == {"a", "b"}

\* the lists a caller can write, repeated values included
WideLists == SeqsUpTo(Features, MaxWide)

RECURSIVE Sum(_)
Sum(s) == IF s = <<>> THEN 0 ELSE Head(s) + Sum(Tail(s))

\* X_target reduced to its "Wide" lists, one per example, with MaxBatchValues
\* values in all
WideBatches ==
    {batch \in UNION {[1..m -> WideLists] : m \in 1..MaxExamples} :
        Sum([e \in 1..Len(batch) |-> Len(batch[e])]) <= MaxBatchValues}

\* what the constructor can be given as wide_features (line 53): nothing, a list,
\* or an object that is no list (a tuple, a set)
Vocabulary(items) == [kind |-> "list", items |-> items]

NotAList == [kind |-> "other", items |-> <<>>]

\* list(a_set): every value once, in an order the interpreter chooses
ListsOf(S) == {l \in [1..Cardinality(S) -> S] : Members(l) = S}

\* a list the caller writes names each possible value once
GivenVocabularies ==
    {NoVocabulary, NotAList}
        \cup UNION {{Vocabulary(l) : l \in ListsOf(S)} : S \in SUBSET Features}

\* no state of the early-exit scheduler takes part
NoClassifier ==
    /\ n_gpus = 1
    /\ num_hidden_layers = 1
    /\ label_size = 1
    /\ ignore_cls = <<>>
    /\ speed = 0
    /\ NoPermutate
    /\ ApiIdle
    /\ scores = <<>>
    /\ NoAssembly

InitWide ==
    /\ NoClassifier
    /\ NoElectra
    /\ NoDLM
    /\ pc = "wide"
    /\ wide_features \in GivenVocabularies
    /\ wide_history = <<wide_features>>
    /\ wide_batch = <<>>
    /\ wide_rows = <<>>
    /\ wide_counts = <<>>
    /\ warnings = 0

\* the values of all "Wide" lists of a batch (lines 126-129)
BatchValues(batch) == UNION {Members(batch[e]) : e \in 1..Len(batch)}

VocabulariesReinferred(wf, batch) == {Vocabulary(l) : l \in ListsOf(BatchValues(batch))}

\* lines 124-130: self.wide_features after the first branch of _convert_X
Vocabularies(wf, batch) ==
    IF wf.kind = "None"
    THEN {Vocabulary(l) : l \in ListsOf(BatchValues(batch))}
    ELSE {wf}

Registered(items, feature) == feature \in Members(items)

\* wide_features_map[feature] (lines 136-139): the dict comprehension keeps the
\* last index of a value that the list repeats
FeatureId(items, feature) ==
    CHOOSE id \in 1..Len(items) :
        /\ items[id] = feature
        /\ \A other \in id + 1..Len(items) : items[other] # feature

WideIdsUnknownAsZero(items, wide_list) ==
    [p \in 1..Len(wide_list) |->
        IF Registered(items, wide_list[p]) THEN FeatureId(items, wide_list[p]) ELSE 0]

\* lines 149-155: the ids of the example's values, an unregistered value
\* raising KeyError inside the try and being passed over
RECURSIVE WideIds(_, _)
WideIds(items, wide_list) ==
    IF wide_list = <<>>
    THEN <<>>
    ELSE (IF Registered(items, Head(wide_list))
          THEN <<FeatureId(items, Head(wide_list))>> ELSE <<>>)
         \o WideIds(items, Tail(wide_list))

\* lines 172-173: for _ in range(len(self.wide_features) - _n_wide_features),
\* an empty range when the difference is negative
Padded(ids, width) ==
    ids \o [j \in 1..(IF width > Len(ids) THEN width - Len(ids) ELSE 0) |-> 0]

Unregistered(items, wide_list) ==
    Cardinality({p \in 1..Len(wide_list) : ~Registered(items, wide_list[p])})

\* lines 131-135: a non-None value that is no list
ConvertXRaises ==
    /\ pc = "wide"
    /\ Len(wide_history) <= MaxConverts
    /\ wide_features.kind = "other"
    /\ \E batch \in WideBatches : wide_batch' = batch
    /\ exc' = "ValueError"
    /\ wide_rows' = <<>>
    /\ wide_counts' = <<>>
    /\ warnings' = 0
    /\ wide_history' = Append(wide_history, wide_features)
    /\ UNCHANGED <<config, locals, api, scoring, assembly, electra, dlm, pc, wide_features>>

\* lines 124-179: a call that returns
ConvertXReturns ==
    /\ pc = "wide"
    /\ Len(wide_history) <= MaxConverts
    /\ wide_features.kind # "other"
    /\ \E batch \in WideBatches :
        \E v \in Vocabularies(wide_features, batch) :
            /\ wide_batch' = batch
            /\ wide_features' = v
            /\ wide_history' = Append(wide_history, v)
            /\ wide_counts' = [e \in 1..Len(batch) |-> Len(WideIds(v.items, batch[e]))]
            /\ wide_rows' = [e \in 1..Len(batch) |->
                                Padded(WideIds(v.items, batch[e]), Len(v.items))]
            /\ warnings' = Sum([e \in 1..Len(batch) |-> Unregistered(v.items, batch[e])])
    /\ exc' = ""
    /\ UNCHANGED <<config, locals, api, scoring, assembly, electra, dlm, pc>>

NextWide == ConvertXRaises \/ ConvertXReturns

SpecWide == InitWide /\ [][NextWide]_vars

\* ================================================= ELECTRALM data conversion
\* src/uf/apps/electra.py, ELECTRALM._convert_X (lines 347-428).  One behaviour
\* of SpecElectra is one call on a module built with some
\* max_predictions_per_seq.  An example is its _input_tokens list, as the loop
\* of lines 375-377 leaves it: "[CLS]", the tokens of one segment already cut
\* to max_seq_length, "[SEP]".
MaxPredictions == 2
MaxTokens == 3
MaxSamples == 2

\* the id the tokenizer gives to an ordinary word piece
WordId == 7

InputTokens(words) == <<"[CLS]">> \o words \o <<"[SEP]">>

\* examples as text for inference is written: words and "[MASK]" marks
InferenceBatches ==
    UNION {[1..m -> {InputTokens(w) : w \in SeqsUpTo({"w", "[MASK]"}, MaxTokens)}] :
              m \in 1..MaxSamples}

\* examples of a training corpus: plain words
TrainingExamples == {InputTokens(w) : w \in SeqsUpTo({"w"}, MaxTokens)}

InitElectra ==
    /\ NoClassifier
    /\ NoWide
    /\ NoDLM
    /\ pc = "electra"
    /\ max_predictions_per_seq \in 1..MaxPredictions
    /\ NoMasks

Zeros(n) == [j \in 1..n |-> 0]

\* for _ in range(n - len(row)): row.append(0), an empty range when n < len(row)
PadTo(row, n) == row \o Zeros(IF n > Len(row) THEN n - Len(row) ELSE 0)

\* lines 403-405: the indices of the "[MASK]" tokens, in order
MaskPositions(tokens) ==
    SelectSeq(Range(Len(tokens)), LAMBDA pos : At(tokens, pos) = "[MASK]")

\* create_masked_lm_predictions (lines 385-391): some of the positions of the
\* words, in increasing order, max_predictions_per_seq of them at most
Increasing(s) == \A a, b \in 1..Len(s) : a < b => s[a] < s[b]

MaskedLmPredictions(tokens, limit) ==
    {s \in SeqsUpTo(1..Len(tokens) - 2, limit) : Increasing(s)}

\* an example of the training corpus with the positions sampled for it
Sampled(limit) ==
    UNION {{[tokens |-> t, positions |-> c] : c \in MaskedLmPredictions(t, limit)} :
              t \in TrainingExamples}

\* lines 382-398: is_training
ConvertXTraining ==
    /\ pc = "electra"
    /\ pc' = "converted"
    /\ is_training' = TRUE
    /\ \E sampled \in UNION {[1..m -> Sampled(max_predictions_per_seq)] : m \in 1..MaxSamples} :
        LET batch == [e \in 1..Len(sampled) |-> sampled[e].tokens]
            chosen == [e \in 1..Len(sampled) |-> sampled[e].positions]
        IN
            /\ input_tokens' = batch
            /\ masked_lm_positions' =
                   [e \in 1..Len(batch) |-> PadTo(chosen[e], max_predictions_per_seq)]
            /\ masked_lm_ids' =
                   [e \in 1..Len(batch) |->
                       PadTo([j \in 1..Len(chosen[e]) |-> WordId], max_predictions_per_seq)]
            /\ masked_lm_weights' =
                   [e \in 1..Len(batch) |->
                       PadTo([j \in 1..Len(chosen[e]) |-> 1], max_predictions_per_seq)]
    /\ UNCHANGED <<config, locals, api, scoring, assembly, wide, dlm, exc, max_predictions_per_seq>>

\* lines 400-411: inference
ConvertXInference ==
    /\ pc = "electra"
    /\ pc' = "converted"
    /\ is_training' = FALSE
    /\ \E batch \in InferenceBatches :
        /\ input_tokens' = batch
        /\ masked_lm_positions' =
               [e \in 1..Len(batch) |->
                   PadTo(MaskPositions(batch[e]), max_predictions_per_seq)]
        /\ masked_lm_ids' = [e \in 1..Len(batch) |-> Zeros(max_predictions_per_seq)]
        /\ masked_lm_weights' = [e \in 1..Len(batch) |-> <<>>]
    /\ UNCHANGED <<config, locals, api, scoring, assembly, wide, dlm, exc, max_predictions_per_seq>>

NextElectra == ConvertXTraining \/ ConvertXInference

SpecElectra == InitElectra /\ [][NextElectra]_vars

\* ================================================ DLM inference rewriting
\* src/uf/modeling/dilated.py, DLM.__init__ (lines 24-146), is_training false.
\* One behaviour of SpecDLM is the graph computed for one batch: Init is the
\* state at line 142 (dilated_mask computed at lines 44-45, no _forward made),
\* one action is one call of _forward.  A tensor of shape [batch, n] is a
\* sequence of rows; tensor positions are 0-based and read with At.  The
\* language model (_bert_forward and the argmax) is any function into
\* non-negative ids: each call draws its output_ids.
MaxSeqLength == 2
MaxRowsPerBatch == 2
MaxBatchTokens == 2
MaxLoop == 2

\* ids the language model can predict: pad, and two tokens one of which can
\* be the [SPAD] token
TokenIds == 0..2

SpadIds == {1, 2}

dilated_seq_length == 2 * max_seq_length

\* lines 123-138 on one row: [a, 0, b, 0, ...]
Dilate(row) ==
    [j \in 1..2 * Len(row) |-> IF j % 2 = 1 THEN row[(j + 1) \div 2] ELSE 0]

\* tf.cast(tf.not_equal(t, 0), ...) on one row
NotEqualZero(row) == [j \in 1..Len(row) |-> IF row[j] # 0 THEN 1 ELSE 0]

\* the rows convert builds (apps/dilated.py 142-145): n tokens, then padding,
\* each followed by a 0
InputRows(M) == {Dilate([j \in 1..M |-> IF j <= n THEN 2 ELSE 0]) : n \in 0..M}

InitDLM ==
    /\ NoClassifier
    /\ NoWide
    /\ NoElectra
    /\ pc = "dlm"
    /\ max_seq_length \in 1..MaxSeqLength
    /\ spad_id \in SpadIds
    /\ dlm_loop \in 1..MaxLoop
    /\ iteration = 0
    /\ \E n \in 1..MaxRowsPerBatch :
        /\ n * max_seq_length <= MaxBatchTokens
        /\ dilated_ids \in [1..n -> InputRows(max_seq_length)]
    /\ dilated_mask = [b \in 1..Len(dilated_ids) |-> NotEqualZero(dilated_ids[b])]
    /\ paded = <<>>

\* tf.sequence_mask(n, len) on one row
SequenceMask(n, len) == [j \in 1..len |-> IF j <= n THEN 1 ELSE 0]

\* lines 100-101: the number of zeros of a row
EqualZero(row) == Cardinality({j \in 1..Len(row) : row[j] = 0})

\* lines 102-104
RightPad(row) ==
    [j \in 1..dilated_seq_length |->
        spad_id * SequenceMask(EqualZero(row), dilated_seq_length)[j]]

PadedOf(output_ids) ==
    [b \in 1..Len(output_ids) |-> output_ids[b] \o RightPad(output_ids[b])]

\* tf.reshape(t, [-1])
RECURSIVE Flatten(_)
Flatten(t) == IF t = <<>> THEN <<>> ELSE Head(t) \o Flatten(Tail(t))

\* lines 107-111: the positive entries of the flattened tensor
FlattenedValid(t) == SelectSeq(Flatten(t), LAMBDA id : id > 0)

\* tf.reshape(flat, [rows, cols])
Reshape(flat, rows, cols) ==
    [b \in 1..rows |-> SubSeq(flat, (b - 1) * cols + 1, b * cols)]

\* lines 112-114
CuttedValid(t) ==
    LET valid == Reshape(FlattenedValid(t), Len(t), dilated_seq_length)
    IN  [b \in 1..Len(t) |-> SubSeq(valid[b], 1, max_seq_length)]

\* lines 117-118
NonSpadMask(row) == [j \in 1..Len(row) |-> IF row[j] # spad_id THEN 1 ELSE 0]

\* line 119
WithoutSpad(row) == [j \in 1..Len(row) |-> row[j] * NonSpadMask(row)[j]]

\* line 120
OutputLength(row) == Sum(NonSpadMask(row))

\* lines 87-140: one call of _forward
Forward ==
    /\ pc = "dlm"
    /\ iteration < dlm_loop
    /\ iteration' = iteration + 1
    /\ \E output_ids \in [1..Len(dilated_ids) -> [1..dilated_seq_length -> TokenIds]] :
        LET cutted_valid == CuttedValid(PadedOf(output_ids))
        IN  /\ paded' = PadedOf(output_ids)
            /\ dilated_ids' =
                   [b \in 1..Len(dilated_ids) |-> Dilate(WithoutSpad(cutted_valid[b]))]
            /\ dilated_mask' =
                   [b \in 1..Len(dilated_ids) |->
                       Dilate(SequenceMask(OutputLength(cutted_valid[b]), max_seq_length))]
    /\ UNCHANGED <<config, locals, api, scoring, assembly, wide, electra, pc, exc,
                   max_seq_length, spad_id, dlm_loop>>

NextDLM == Forward

SpecDLM == InitDLM /\ [][NextDLM]_vars

\* ============================================================ properties
Returned == pc = "returned"

Terminal == pc \in {"returned", "raised"}

Examples == 0..batch_size - 1

MinOf(S) == CHOOSE x \in S : \A y \in S : x <= y

SumLens(s) == LET F[n \in 0..Len(s)] == IF n = 0 THEN 0 ELSE F[n - 1] + Len(s[n].unfinished)
              IN  F[Len(s)]

\* An ignore list as the documentation of predict describes it: stage indices
\* of the model, none repeated, the final stage not among them.
WellFormedIgnore ==
    /\ \A a, b \in 1..Len(ignore_cls) : a # b => ignore_cls[a] # ignore_cls[b]
    /\ \A a \in 1..Len(ignore_cls) : ignore_cls[a] \in 0..num_hidden_layers - 1

\* The configurations every claim below covers: a well-formed ignore list and
\* at least two labels.
OrdinaryConfig == WellFormedIgnore /\ label_size >= 2

\* the loop bodies that wrote the outputs of example idx
WritesOf(idx) == {j \in 1..Len(trace) : trace[j].idx = idx /\ trace[j].exit}

\* C1: when the scheduler returns, every example 0..batch_size-1 has been
\* finalized exactly once and the unfinished list of the last chunk is empty,
\* for any batch size and device count.
C1_FinalizedExactlyOnce ==
    (Returned /\ OrdinaryConfig) =>
        /\ \A idx \in Examples : Cardinality(WritesOf(idx)) = 1
        /\ unfinished = <<>>

\* C2: chunk d starts with the unfinished list [d*d_batch_size ..
\* (d+1)*d_batch_size - 1], whatever the earlier chunks consumed, and no write
\* targets an index outside 0..batch_size-1.
C2_ChunksAlignedWritesInRange ==
    OrdinaryConfig =>
        /\ (pc = "for_loop" /\ loop = 0) =>
               unfinished = [j \in 1..d_batch_size |-> (j - 1) + d * d_batch_size]
        /\ exc # "IndexError@238"

\* the loops at which a row read for example idx was below the threshold
HitsOf(idx) ==
    {trace[j].loop : j \in {n \in 1..Len(trace) :
        /\ trace[n].idx = idx
        /\ Uncertainty(At(At(batch_probs, trace[n].row), 0), label_size) < speed}}

RefLoop(idx) == IF HitsOf(idx) = {} THEN max_loop - 1 ELSE MinOf(HitsOf(idx))

\* C3: the source of each example is keep_cls[j] for the smallest loop j whose
\* row for that example is below the threshold, keep_cls[max_loop-1] when
\* there is none; a row not below the threshold on a non-final loop never
\* finalizes.
C3_SourceIsReferenceExit ==
    /\ (Returned /\ OrdinaryConfig) =>
           \A idx \in Examples : sources[idx] = At(keep_cls, RefLoop(idx))
    /\ \A j \in 1..Len(trace) :
           (/\ trace[j].loop # max_loop - 1
            /\ ~(Uncertainty(At(At(batch_probs, trace[j].row), 0), label_size) < speed))
           => ~trace[j].exit

\* C4: every entry of the returned sources array is a stage of keep_cls.
C4_SourcesInKeepCls ==
    (Returned /\ OrdinaryConfig) =>
        \A idx \in Examples : sources[idx] \in Members(keep_cls)

\* C5: rows are read at 0, 1, 2, ... one per still-active example per loop,
\* none reread or skipped; on return the rows read are all of batch_probs and
\* as many as the sum of the lengths of unfinished at the loop starts.
C5_FifoConsumption ==
    /\ i = Len(trace)
    /\ \A j \in 1..Len(trace) : trace[j].row = j - 1
    /\ Returned => (i = Len(batch_probs) /\ i = SumLens(entered))

C5_Witness ==
    /\ Returned
    /\ n_device = 2
    /\ Len(trace) >= 4
    /\ \E j \in 1..Len(trace) : ~trace[j].exit

\* a still-active example finds no row left / the loops ended with rows left
RowsRanOut == Terminal /\ pc # "returned" /\ k < Len(unfinished) /\ i >= Len(batch_probs)

RowsLeftOver == d >= n_device /\ i < Len(batch_probs)

\* C6 as stated: a call given more rows or fewer rows than it consumes ends in
\* the assertion failure of line 244.
C6_MismatchEndsInAssertion ==
    (OrdinaryConfig /\ Terminal /\ (RowsRanOut \/ RowsLeftOver)) =>
        exc = "AssertionError@244"

\* C6, amended: rows left over end the call in the assertion failure of line
\* 244, rows running out end it in the IndexError of the read of line 237, and
\* a call that returns has read exactly the rows it was given.
C6_MismatchNeverReturns ==
    /\ (Terminal /\ RowsLeftOver) => (pc = "raised" /\ exc = "AssertionError@244")
    /\ RowsRanOut => exc = "IndexError@237"
    /\ Returned => (i = Len(batch_probs) /\ exc = "")

C6_Witness == RowsRanOut /\ i > 0 /\ loop > 0

\* C7: max_loop equals len(keep_cls) for every ignore list, so the forced exit
\* of the last loop is at keep_cls[-1].
C7_MaxLoopIsLenKeepCls == max_loop = Len(keep_cls)

\* C8: with speed = 0 every example of a returned call has the final kept
\* stage as its source.
C8_SpeedZeroExitsLast ==
    (Returned /\ WellFormedIgnore /\ speed = 0) =>
        \A idx \in Examples : sources[idx] = keep_cls[Len(keep_cls)]

\* C9: with speed = 1 and every first-loop row below uncertainty 1, every
\* example has keep_cls[0] as its source and batch_size rows are read.
C9_SpeedOneExitsFirst ==
    (/\ Returned
     /\ OrdinaryConfig
     /\ speed = 10000
     /\ \A j \in 1..Len(trace) : trace[j].loop = 0 =>
            Uncertainty(At(At(batch_probs, trace[j].row), 0), label_size) < 10000)
    => /\ \A idx \in Examples : sources[idx] = At(keep_cls, 0)
       /\ i = batch_size

\* the scenario of C10
Scenario ==
    /\ label_size = 2
    /\ ignore_cls = <<>>
    /\ num_hidden_layers = 3
    /\ speed = 1000
    /\ n_device = 1
    /\ batch_size = 2
    /\ batch_probs = <<RowOf(99, 2), RowOf(60, 2), RowOf(60, 2), RowOf(60, 2), RowOf(60, 2)>>

\* C10: in the scenario the call returns having read 5 rows, 2, 1, 1, 1 per
\* loop, with sources = [0, 3] and example 1's probs written from the row of
\* the last loop.
C10_Scenario ==
    (Scenario /\ Terminal) =>
        /\ Returned
        /\ i = 5
        /\ [n \in 1..Len(entered) |-> Len(entered[n].unfinished)] = <<2, 1, 1, 1>>
        /\ sources = [idx \in 0..1 |-> IF idx = 0 THEN 0 ELSE 3]
        /\ probs[0] = RowOf(99, 2)
        /\ probs[1] = RowOf(60, 2)
        /\ WritesOf(1) = {5}
        /\ trace[5].row = 4 /\ trace[5].loop = 3

C10_Witness == Scenario /\ Returned

RECURSIVE IsSubseq(_, _)
\* a is b with some entries left out, the others in the order of b
IsSubseq(a, b) ==
    IF a = <<>> THEN TRUE
    ELSE IF b = <<>> THEN FALSE
    ELSE IF Head(a) = Head(b) THEN IsSubseq(Tail(a), Tail(b))
    ELSE IsSubseq(a, Tail(b))

\* C11: within a device chunk the unfinished list entering loop j+1 is a
\* subsequence of the one entering loop j: same order, no new index, and no
\* index that was finalized in the chunk comes back.
C11_UnfinishedShrinks ==
    /\ pc = "for_k" => IsSubseq(next_unfinished, SubSeq(unfinished, 1, k))
    /\ \A n \in 1..Len(entered) - 1 :
           entered[n].d = entered[n + 1].d =>
               /\ entered[n + 1].loop = entered[n].loop + 1
               /\ IsSubseq(entered[n + 1].unfinished, entered[n].unfinished)
               /\ \A j \in 1..Len(trace) :
                      (/\ trace[j].d = entered[n].d
                       /\ trace[j].loop <= entered[n].loop
                       /\ trace[j].exit)
                      => trace[j].idx \notin Members(entered[n + 1].unfinished)

C11_Witness ==
    \E n \in 1..Len(entered) - 1 :
        /\ entered[n].d = entered[n + 1].d
        /\ Len(entered[n].unfinished) = 3
        /\ Len(entered[n + 1].unfinished) = 2
        /\ At(entered[n + 1].unfinished, 0) # At(entered[n].unfinished, 0)

\* C13: a classifier with label_size = 1 is guarded: no row is scored with the
\* divisor log(1 / label_size) = 0, and no exit is decided on an infinite
\* score.
C13_ScoreNeverInfinite ==
    WellFormedIgnore =>
        \A j \in 1..Len(trace) :
            /\ LogInvLabelSize(label_size) # 0
            /\ Uncertainty(At(At(batch_probs, trace[j].row), 0), label_size) # NegInf

\* the loops chunk c entered
LoopsOf(c) == {n \in 1..Len(entered) : entered[n].d = c}

\* C16: for every batch, device count and ignore list the call, once it has
\* returned or failed, has read at most n_device * max_loop * d_batch_size
\* rows, and every chunk it finished has run exactly max_loop loops, whatever
\* the probabilities.
C16_BoundedReads ==
    (label_size >= 2 /\ Terminal) =>
        /\ i <= n_device * max_loop * d_batch_size
        /\ \A c \in 0..d - 1 : Cardinality(LoopsOf(c)) = max_loop

\* C18: no step of _permutate changes self._speed, self._ignore_cls,
\* self.batch_size, self.label_size or the rows of batch_probs; the only data
\* written are the entries of the fresh probs and sources arrays, and only the
\* entry of the example being finalized.
C18_OnlyOutputsWritten ==
    [][/\ UNCHANGED <<speed, ignore_cls, batch_size, label_size, batch_probs>>
       /\ \A j \in Examples :
              (probs'[j] # probs[j] \/ sources'[j] # sources[j])
              => (pc = "for_k" /\ j = At(unfinished, k))]_vars

C18_Witness ==
    /\ Returned
    /\ Len(trace) >= 3
    /\ \E a, b \in Examples : a # b /\ probs[a] # probs[b] /\ sources[a] # sources[b]

\* C12: an ignore list that holds the final stage num_hidden_layers is turned
\* down by predict, score and export: the base class, which schedules the
\* examples, is never called with such a list stored.
C12_FinalStageRejected ==
    pc = "base" => num_hidden_layers \notin Members(ignore_cls)

\* C15: the settings the base class works with are those of the call in
\* progress, the defaults 0.1 and [0] for a setting the caller left out,
\* whatever earlier calls stored.
C15_SettingsAreThoseOfTheCall ==
    pc = "base" =>
        /\ speed = call.speed
        /\ ignore_cls = call.ignore_cls
        /\ ~call.speed_given => speed = DefaultSpeed
        /\ ~call.ignore_given => ignore_cls = DefaultIgnoreCls

C15_Witness ==
    /\ pc = "base"
    /\ calls = 2
    /\ ~call.speed_given /\ call.old_speed = 0
    /\ ~call.ignore_given /\ call.old_ignore_cls = <<>>
    /\ speed = 1000 /\ ignore_cls = <<0>>

\* the first-class probability of the row that got the n-th score
ScoredProb(n) == At(batch_probs[n], 0)

\* C17: with two labels the score of every p strictly between 0 and 1 is
\* within [0, 1], is largest at p = 0.5, is the same at p and 1 - p and falls
\* as p moves from 0.5 towards 0 or towards 1; a p of 0 or 1 is clamped, so
\* that np.log is never applied to 0.
C17_ScoreShape ==
    label_size = 2 =>
        \A a, b \in 1..Len(scores) :
            LET p == ScoredProb(a)
                q == ScoredProb(b)
            IN  /\ 0 \notin LogArgs(Clamp(p))
                /\ p \in 1..99 => (scores[a] >= 0 /\ scores[a] <= 10000)
                /\ p = 50 => scores[a] >= scores[b]
                /\ p + q = 100 => scores[a] = scores[b]
                /\ (p < q /\ q <= 50) => scores[a] < scores[b]
                /\ (50 <= p /\ p < q) => scores[a] > scores[b]

C17_Witness ==
    /\ label_size = 2
    /\ Len(scores) = 2
    /\ ScoredProb(1) = 40 /\ ScoredProb(2) = 60
    /\ scores[1] = 9709

\* the entries of a row that no other entry exceeds
Largest(row) == {j \in 0..Len(row) - 1 : \A m \in 0..Len(row) - 1 : At(row, m) <= At(row, j)}

C20_ScoreUnsupported ==
    call.kind = "score" =>
        /\ exc = "AttributeError@60"
        /\ batch_size = call.old_batch_size
        /\ session_mode = call.old_mode

C20_Witness ==
    /\ calls = 2
    /\ call.kind = "score"
    /\ call.n_kwargs = 2
    /\ call.old_mode = "train"
    /\ exc = "AttributeError@60"

\* the call in progress gave a setting that differs from the stored one
SettingsDiffer == call.ignore_cls # call.old_ignore_cls \/ call.speed # call.old_speed

\* C22: when predict, score or export hands over to the base class, the
\* session mode has been set to None if the call's ignore_cls or speed
\* differed from the stored one, and otherwise the mode and both stored
\* settings are as they were; in both cases the stored settings are now the
\* call's.
C22_ResetIffSettingsDiffer ==
    pc = "base" =>
        /\ SettingsDiffer => session_mode = "None"
        /\ ~SettingsDiffer =>
               /\ session_mode = call.old_mode
               /\ speed = call.old_speed
               /\ ignore_cls = call.old_ignore_cls
        /\ speed = call.speed
        /\ ignore_cls = call.ignore_cls

C22_Witness ==
    /\ pc = "base"
    /\ calls = 2
    /\ ~SettingsDiffer
    /\ call.speed = 0
    /\ call.ignore_cls = <<>>
    /\ session_mode = "infer"

\* C23: for every ignore list, repeated or out-of-range entries included,
\* max_loop is at most len(keep_cls), so every loop that runs looks up
\* keep_cls[loop] inside keep_cls.
C23_StageLookupInRange ==
    LET n_keep == Len(keep_cls)
    IN  /\ max_loop <= n_keep
        /\ pc = "for_k" => (0 <= loop /\ loop < n_keep)
        /\ \A n \in 1..Len(entered) : 0 <= entered[n].loop /\ entered[n].loop < n_keep

C23_Witness ==
    /\ Returned
    /\ ignore_cls = <<0, 0>>
    /\ num_hidden_layers = 2
    /\ \E n \in 1..Len(entered) : entered[n].loop = max_loop - 1
    /\ \E idx \in Examples : sources[idx] = 1

\* the rows that agree with row on the first-class probability and carry
\* anything else in the other classes
Variants(row) == {<<At(row, 0)>> \o rest : rest \in [1..Len(row) - 1 -> {0, 40, 99}]}

\* C24: whenever a row is about to be decided, every row with the same
\* first-class probability gets the same decision at that loop, whatever its
\* other entries; the stage written depends on the loop alone.  Two runs
\* whose rows agree on the first-class probabilities therefore take the same
\* steps and return the same sources.
C24_DecisionReadsFirstClassOnly ==
    (pc = "for_k" /\ k < Len(unfinished) /\ i < Len(batch_probs)) =>
        \A v \in Variants(At(batch_probs, i)) :
            Exits(v, loop) = Exits(At(batch_probs, i), loop)

C24_Witness ==
    /\ Returned
    /\ label_size = 2
    /\ \E a, b \in 1..Len(trace) :
           /\ trace[a].exit /\ trace[a].loop < max_loop - 1
           /\ ~trace[b].exit
           /\ sources[trace[a].idx] # sources[trace[b].idx]

\* C25: for the same batch_probs, speed, ignore_cls, batch_size, label_size
\* and device count the copy of _permutate in _get_score_outputs returns
\* exactly when the copy in _get_predict_outputs does, and with the same probs
\* array, row for row.
C25_ScoreSchedulesAsPredict ==
    /\ Returned => (~ScorePermutate.err /\ ScorePermutate.probs = probs)
    /\ pc = "raised" => ScorePermutate.err

C25_Witness ==
    /\ Returned
    /\ n_device = 2
    /\ batch_size = 3
    /\ \E j \in 1..Len(trace) : ~trace[j].exit
    /\ ScorePermutate.probs[2] # ZeroRow(label_size)

\* ---------------------------------------------------------------------
\* a call of _convert_X on a module whose vocabulary is a list has been made
WideConverted == pc = "wide" /\ Len(wide_history) > 1 /\ wide_features.kind = "list"

RegisteredOf(e) ==
    SelectSeq(wide_batch[e], LAMBDA f : Registered(wide_features.items, f))

NonZero(row) == SelectSeq(row, LAMBDA id : id # 0)

\* C21: a value of "Wide" that is not in self.wide_features is passed over with
\* a warning: the call still returns one row and one count for every example of
\* the batch, the count is the number of registered values of the example, and
\* the non-zero entries of the row are the ids of those values and nothing else.
C21_UnregisteredIgnored ==
    WideConverted =>
        /\ exc = ""
        /\ Len(wide_rows) = Len(wide_batch)
        /\ Len(wide_counts) = Len(wide_batch)
        /\ \A e \in 1..Len(wide_batch) :
            /\ wide_counts[e] =
                   Len(wide_batch[e]) - Unregistered(wide_features.items, wide_batch[e])
            /\ NonZero(wide_rows[e]) =
                   [p \in 1..Len(RegisteredOf(e)) |->
                        FeatureId(wide_features.items, RegisteredOf(e)[p])]
        /\ warnings = Sum([e \in 1..Len(wide_batch) |->
                              Unregistered(wide_features.items, wide_batch[e])])

C21_Witness ==
    /\ WideConverted
    /\ wide_features.items = <<"a">>
    /\ wide_batch = <<(<<"b">>), (<<"a">>)>>
    /\ wide_rows = <<(<<0>>), (<<1>>)>>
    /\ wide_counts = <<0, 1>>
    /\ warnings = 1

\* C26: every returned row is as wide as the placeholder (len(self.wide_features)),
\* made of the ids of the example's registered values followed by zeros, and
\* n_wide_features counts its non-zero entries.  An example that repeats a
\* registered value gets one id per occurrence and can outgrow the placeholder.
C26_RowsHavePlaceholderWidth ==
    WideConverted =>
        \A e \in 1..Len(wide_rows) :
            /\ Len(wide_rows[e]) = Len(wide_features.items)
            /\ \A p, q \in 1..Len(wide_rows[e]) :
                   (p < q /\ wide_rows[e][p] = 0) => wide_rows[e][q] = 0
            /\ NonZero(wide_rows[e]) =
                   [p \in 1..Len(RegisteredOf(e)) |->
                        FeatureId(wide_features.items, RegisteredOf(e)[p])]
            /\ wide_counts[e] = Len(NonZero(wide_rows[e]))

\* C27: once self.wide_features is a list no call of _convert_X changes it; a
\* None vocabulary becomes, in the first call, a list of the values of that
\* batch; a value that is neither makes the call raise ValueError.
C27_VocabularyFixedOnceSet ==
    /\ Len(wide_history) >= 1 => wide_features = wide_history[Len(wide_history)]
    /\ \A a, b \in 1..Len(wide_history) :
           (a < b /\ wide_history[a].kind = "list") => wide_history[b] = wide_history[a]
    /\ (Len(wide_history) >= 2 /\ wide_history[1].kind = "None") =>
           /\ wide_history[2].kind = "list"
           /\ Len(wide_history) = 2 =>
                  /\ Members(wide_features.items) = BatchValues(wide_batch)
                  /\ Len(wide_features.items) = Cardinality(BatchValues(wide_batch))
    /\ (Len(wide_history) >= 2 /\ wide_history[1].kind = "other") =>
           /\ exc = "ValueError"
           /\ wide_features = NotAList
           /\ wide_rows = <<>>

C27_Witness ==
    /\ Len(wide_history) = 3
    /\ wide_history[1] = NoVocabulary
    /\ wide_history[2] = Vocabulary(<<"b", "a">>)
    /\ wide_features = Vocabulary(<<"b", "a">>)
    /\ wide_batch = <<(<<"a">>)>>
    /\ wide_rows = <<(<<2, 0>>)>>

\* ---------------------------------------------------------------------
\* C28: every row of masked_lm_positions and of masked_lm_ids has exactly
\* max_predictions_per_seq entries, in training and in inference, and in
\* inference the positions are the indices of the "[MASK]" tokens in order,
\* then zeros.  An inference input with more "[MASK]" tokens than
\* max_predictions_per_seq gets a position for each of them.
C28_MaskedRowsHaveFixedWidth ==
    pc = "converted" =>
        \A e \in 1..Len(input_tokens) :
            /\ Len(masked_lm_positions[e]) = max_predictions_per_seq
            /\ Len(masked_lm_ids[e]) = max_predictions_per_seq
            /\ ~is_training =>
                   /\ NonZero(masked_lm_positions[e]) = MaskPositions(input_tokens[e])
                   /\ \A p, q \in 1..Len(masked_lm_positions[e]) :
                          (p < q /\ masked_lm_positions[e][p] = 0)
                              => masked_lm_positions[e][q] = 0

\* ---------------------------------------------------------------------
\* C29: after every _forward, each row of dilated_ids has 2 * max_seq_length
\* entries with 0 at every odd position, each row of `paded` holds exactly
\* dilated_seq_length positive entries, and dilated_mask is 1 at an even
\* position exactly when dilated_ids is not 0 there.  A predicted [SPAD] token
\* is blanked in dilated_ids where it stands, while dilated_mask marks the
\* first output_length positions.
C29_MaskMarksNonZeroIds ==
    (pc = "dlm" /\ iteration >= 1) =>
        \A b \in 1..Len(dilated_ids) :
            /\ Len(dilated_ids[b]) = 2 * max_seq_length
            /\ \A j \in 0..max_seq_length - 1 : At(dilated_ids[b], 2 * j + 1) = 0
            /\ Len(SelectSeq(paded[b], LAMBDA id : id > 0)) = dilated_seq_length
            /\ \A j \in 0..max_seq_length - 1 :
                   At(dilated_mask[b], 2 * j) = 1 <=> At(dilated_ids[b], 2 * j) # 0

====
